---------------------------- MODULE Spec2Model ----------------------------
(***************************************************************************)
(* Model of teldrive's upload service (pkg/services/upload.go): the        *)
(* UploadFile handler run by concurrent requests against a remote channel  *)
(* transport, the bot-token rotation worker and the uploads ledger; the    *)
(* ledger queries GetUploadFileById and DeleteUploadFile; and the upload   *)
(* statistics query GetUploadStats over the files table.  And of its       *)
(* authentication service (services/auth.service.go): the LogIn handler    *)
(* against the users and files tables, and the HandleMultipleLogin         *)
(* websocket handler with the goroutines it starts per client message.     *)
(*                                                                         *)
(* UploadFile is split at its blocking calls: every collaborator call      *)
(* (cache/database lookup, authentication, transport call, ledger write)   *)
(* is one step of the request, and concurrent requests interleave between  *)
(* steps.  The outcome of a collaborator call (success, error, content of  *)
(* the answer) is chosen by the environment.                               *)
(***************************************************************************)
EXTENDS Integers, Sequences, FiniteSets, TLC

(* ------------------------------ bounds -------------------------------- *)

\* concurrent upload requests of the full upload specification
NumReqs == 2
\* upload requests of the identity-rotation specification
NumWorkerReqs == 4
\* largest part number a request carries
MaxPartNo == 2
\* the clock runs from 0 to MaxTime (seconds)
MaxTime == 3
\* us.cnf.Uploads.Retention, in seconds (configuration)
Retention == 2
\* the files table holds files created on days 1..NumDays; the last is CURRENT_DATE
NumDays == 3
\* largest number of rows of the files table
MaxFiles == 3
\* concurrent LogIn requests
NumLogins == 2
\* goroutines one HandleMultipleLogin connection can start
NumRoutines == 2

AllReqs == 1..(IF NumReqs > NumWorkerReqs THEN NumReqs ELSE NumWorkerReqs)
Reqs == 1..NumReqs
WorkerReqs == 1..NumWorkerReqs
UploadIds == {"a", "b"}
PartNos == 1..MaxPartNo
\* uploadQuery.ChannelID: 0 asks for the user's default channel
QueryChannels == {0, 100}
Channels == {100, 200}
\* answers getBotsToken can give: no bot, or the bots registered for a channel
BotLists == {<<>>, <<"b1", "b2">>}
\* the same while bots are being added and removed
ChangingBotLists == {<<"b1">>, <<"b1", "b2">>}
\* us.cnf.Uploads.EncryptionKey: unset or set
EncryptionKeys == {"", "key"}
\* c.Request.ContentLength of a part, in bytes
ContentLengths == {0, 10, 1000}

VARIABLES
    uploadQuery,    \* per request: the bound query and the id path parameter
    botLists,       \* the token lists getBotsToken can answer with
    faults,         \* whether the collaborators (store, transport) may fail
    setupFaults,    \* whether the salt generator and the cipher may fail
    EncryptionKey,  \* us.cnf.Uploads.EncryptionKey
    st,             \* per request: position in UploadFile and its locals
    calls,          \* per request: the collaborator calls it has made, in order
    pool,           \* per request: its uploadPool ("none", "open", "closed")
    bots,           \* BotWorker: channel -> token list
    currIdx,        \* BotWorker: channel -> rotation cursor
    remote,         \* messages that exist in the channels: {[channel, id]}
    lastId,         \* last message id the transport assigned
    deletes,        \* ChannelsDeleteMessages calls issued: <<[req, channel, id, ok]>>
    ledger,         \* the uploads table: sequence of rows
    now,            \* the clock
    listing,        \* last answer of GetUploadFileById
    sent,           \* messages the transport accepted: <<[req, channel, id]>>
    files,          \* the files table: set of rows
    stats,          \* last answer of GetUploadStats
    AllowedUsers,   \* config.AllowedUsers
    usersKeyed,     \* whether the users table refuses a second row of a user_id
    users,          \* the users table: sequence of rows
    folders,        \* the root folders of the files table: sequence of rows
    login,          \* per LogIn request: its payload, position, locals and answer
    conn,           \* the websocket connection of HandleMultipleLogin
    handler,        \* HandleMultipleLogin: "reading" client messages or "returned"
    routines,       \* the goroutines the handler started, by number
    writing,        \* the goroutines that are inside conn.WriteJSON
    wsOut,          \* the messages the client received from the connection
    logouts         \* the goroutines that called AuthLogOut

\* the state of LogIn
loginVars == <<AllowedUsers, usersKeyed, users, folders, login>>

\* the state of HandleMultipleLogin
socketVars == <<conn, handler, routines, writing, wsOut, logouts>>

\* the state of the authentication service
authVars == <<loginVars, socketVars>>

\* the state of the upload service
uploadVars == <<uploadQuery, botLists, faults, setupFaults, EncryptionKey, st, calls, pool,
                bots, currIdx, remote, lastId, deletes, ledger, now, listing, sent, files,
                stats>>

vars == <<uploadQuery, botLists, faults, setupFaults, EncryptionKey, st, calls, pool, bots,
          currIdx, remote, lastId, deletes, ledger, now, listing, sent, files, stats,
          AllowedUsers, usersKeyed, users, folders, login, conn, handler, routines,
          writing, wsOut, logouts>>

(* ------------------------------ helpers ------------------------------- *)

Queries ==
    [id : UploadIds, PartNo : PartNos, Encrypted : BOOLEAN, ChannelID : QueryChannels,
     ContentLength : ContentLengths]

\* the locals of UploadFile before its first statement
InitLocals ==
    [pc |-> "start", channelId |-> 0, tokens |-> <<>>, token |-> "", index |-> 0,
     setup |-> "", salt |-> "", fileSize |-> 0, declared |-> 0,
     confirm |-> "", msgId |-> 0, verify |-> "", res |-> "", err |-> "", code |-> 0]

\* rows of the uploads table that a request wrote
RowsOf(r) == {i \in DOMAIN ledger : ledger[i].req = r}

\* rows of the uploads table for key (uploadId, partNo)
RowsWithKey(id, n) == {i \in DOMAIN ledger : ledger[i].UploadId = id /\ ledger[i].PartNo = n}

\* the request logs a collaborator call
Call(r, name) == calls' = [calls EXCEPT ![r] = Append(@, name)]

\* an error return that leaves the pool to the success path to close
ReturnErrorPoolLeft(r, e, c) ==
    /\ st' = [st EXCEPT ![r].pc = "done", ![r].res = "error", ![r].err = e, ![r].code = c]
    /\ pool' = pool

\* UploadFile returns an AppError; the deferred uploadPool.Close() runs
ReturnError(r, e, c) ==
    /\ st' = [st EXCEPT ![r].pc = "done", ![r].res = "error", ![r].err = e, ![r].code = c]
    /\ pool' = [pool EXCEPT ![r] = IF @ = "open" THEN "closed" ELSE @]


\* UploadFile returns (out, nil)
ReturnOut(r, v) ==
    /\ st' = [st EXCEPT ![r].pc = "done", ![r].res = "ok", ![r].verify = v]
    /\ pool' = [pool EXCEPT ![r] = IF @ = "open" THEN "closed" ELSE @]

\* the request moves on to its next blocking call
Goto(r, next) == st' = [st EXCEPT ![r].pc = next]

(* --------------------------- BotWorker -------------------------------- *)

\* BotWorker.Set(tokens, channelId): the channel's identity list becomes tokens;
\* the cursor is touched by selection only
WorkerSet(tokens, c) ==
    /\ bots' = [bots EXCEPT ![c] = tokens]
    /\ currIdx' = currIdx

\* a selection that trusts the cursor without wrapping it
NextIndexUnwrapped(cur, len) == cur

\* the index BotWorker.Next selects: the cursor, wrapped at the list length
NextIndex(cur, len) == cur % len

\* a selection that forgets to advance the cursor
NextCursorStuck(idx, len) == idx % len

\* the cursor BotWorker.Next leaves behind
NextCursor(idx, len) == (idx + 1) % len

\* the token at a 0-based index of a list ("" when there is none)
TokenAt(list, i) == IF i + 1 \in DOMAIN list THEN list[i + 1] ELSE ""

(* ---------------------------- the ledger ------------------------------ *)

\* a table without the key constraint
KeyTakenNever(row) == FALSE

\* the uploads table refuses a second row with the key (upload_id, part_no)
KeyTaken(row) == RowsWithKey(row.UploadId, row.PartNo) # {}

\* db.Create(partUpload): the row is stamped with the current time and appended
DbCreate(row) == ledger' = Append(ledger, [row EXCEPT !.CreatedAt = now])

(* ---------------------------- UploadFile ------------------------------ *)

\* a handler without the encryption-key check
KeyMissingUnchecked(q) == FALSE

\* uploadQuery.Encrypted && us.cnf.Uploads.EncryptionKey == ""
KeyMissing(q) == q.Encrypted /\ EncryptionKey = ""

\* c.ShouldBindQuery and the encryption-key check
Begin(r) ==
    /\ st[r].pc = "start"
    /\ \/ /\ faults
          /\ ReturnError(r, "bind", 400)
       \/ /\ KeyMissing(uploadQuery[r])
          /\ ReturnError(r, "encryption key not found", 400)
       \/ /\ ~KeyMissing(uploadQuery[r])
          /\ Goto(r, "channel")
          /\ pool' = pool
    /\ UNCHANGED <<authVars, files, stats, sent, uploadQuery, botLists, faults, setupFaults,
                   EncryptionKey, calls, bots, currIdx, remote, lastId, deletes, ledger,
                   now, listing>>

\* the destination channel: the query's, or the user's default channel
ResolveChannel(r) ==
    /\ st[r].pc = "channel"
    /\ \/ /\ uploadQuery[r].ChannelID = 0
          /\ Call(r, "getDefaultChannel")
          /\ \/ /\ faults
                /\ ReturnError(r, "getDefaultChannel", 0)
             \/ /\ st' = [st EXCEPT ![r].pc = "tokens", ![r].channelId = 200]
                /\ pool' = pool
       \/ /\ uploadQuery[r].ChannelID # 0
          /\ st' = [st EXCEPT ![r].pc = "tokens", ![r].channelId = uploadQuery[r].ChannelID]
          /\ UNCHANGED <<calls, pool>>
    /\ UNCHANGED <<authVars, files, stats, sent, uploadQuery, botLists, faults, setupFaults,
                   EncryptionKey, bots, currIdx, remote, lastId, deletes, ledger, now,
                   listing>>

\* getBotsToken, and the choice between the user's and a bot's identity
GetTokens(r) ==
    /\ st[r].pc = "tokens"
    /\ Call(r, "getBotsToken")
    /\ \/ /\ faults
          /\ ReturnError(r, "getBotsToken", 0)
       \/ /\ \E t \in botLists :
                st' = [st EXCEPT ![r].tokens = t,
                                 ![r].pc = IF Len(t) = 0 THEN "authUser" ELSE "workerSet"]
          /\ pool' = pool
    /\ UNCHANGED <<authVars, files, stats, sent, uploadQuery, botLists, faults, setupFaults,
                   EncryptionKey, bots, currIdx, remote, lastId, deletes, ledger, now,
                   listing>>

\* tgc.AuthClient with the user's session; then the pool is created
AuthUser(r) ==
    /\ st[r].pc = "authUser"
    /\ Call(r, "AuthClient")
    /\ \/ /\ faults
          /\ ReturnError(r, "AuthClient", 0)
       \/ /\ Goto(r, "run")
          /\ pool' = [pool EXCEPT ![r] = "open"]
    /\ UNCHANGED <<authVars, files, stats, sent, uploadQuery, botLists, faults, setupFaults,
                   EncryptionKey, bots, currIdx, remote, lastId, deletes, ledger, now,
                   listing>>

\* us.worker.Set(tokens, channelId)
UploadSet(r) ==
    /\ st[r].pc = "workerSet"
    /\ Call(r, "Set")
    /\ WorkerSet(st[r].tokens, st[r].channelId)
    /\ Goto(r, "workerNext")
    /\ UNCHANGED <<authVars, files, stats, sent, uploadQuery, botLists, faults, setupFaults,
                   EncryptionKey, pool, remote, lastId, deletes, ledger, now, listing>>

\* token, index = us.worker.Next(channelId)
UploadNext(r) ==
    /\ st[r].pc = "workerNext"
    /\ Call(r, "Next")
    /\ LET c == st[r].channelId
           idx == NextIndex(currIdx[c], Len(bots[c]))
       IN /\ currIdx' = [currIdx EXCEPT ![c] = NextCursor(idx, Len(bots[c]))]
          /\ st' = [st EXCEPT ![r].pc = "botClient", ![r].index = idx,
                              ![r].token = TokenAt(bots[c], idx)]
    /\ UNCHANGED <<authVars, files, stats, sent, uploadQuery, botLists, faults, setupFaults,
                   EncryptionKey, pool, bots, remote, lastId, deletes, ledger, now,
                   listing>>

\* a handler that notes the error of tgc.BotClient and goes on
BotClientUnchecked(r) ==
    /\ st[r].pc = "botClient"
    /\ Call(r, "BotClient")
    /\ \E e \in {"", "BotClient"} :
          st' = [st EXCEPT ![r].pc = "run", ![r].err = e]
    /\ pool' = [pool EXCEPT ![r] = "open"]
    /\ UNCHANGED <<authVars, files, stats, sent, uploadQuery, botLists, faults, setupFaults,
                   EncryptionKey, bots, currIdx, remote, lastId, deletes, ledger, now,
                   listing>>

\* tgc.BotClient with the selected token; then the pool is created
BotClient(r) ==
    /\ st[r].pc = "botClient"
    /\ Call(r, "BotClient")
    /\ \/ /\ faults
          /\ ReturnError(r, "BotClient", 0)
       \/ /\ Goto(r, "run")
          /\ pool' = [pool EXCEPT ![r] = "open"]
    /\ UNCHANGED <<authVars, files, stats, sent, uploadQuery, botLists, faults, setupFaults,
                   EncryptionKey, bots, currIdx, remote, lastId, deletes, ledger, now,
                   listing>>

\* tgc.RunWithAuth connects and authenticates before it runs the callback
RunWithAuth(r) ==
    /\ st[r].pc = "run"
    /\ Call(r, "RunWithAuth")
    /\ \/ /\ faults
          /\ ReturnError(r, "RunWithAuth", 0)
       \/ /\ Goto(r, "getChannel")
          /\ pool' = pool
    /\ UNCHANGED <<authVars, files, stats, sent, uploadQuery, botLists, faults, setupFaults,
                   EncryptionKey, bots, currIdx, remote, lastId, deletes, ledger, now,
                   listing>>

\* tgc.GetChannelById
GetChannel(r) ==
    /\ st[r].pc = "getChannel"
    /\ Call(r, "GetChannelById")
    /\ \/ /\ faults
          /\ ReturnError(r, "GetChannelById", 0)
       \/ /\ Goto(r, "upload")
          /\ pool' = pool
    /\ UNCHANGED <<authVars, files, stats, sent, uploadQuery, botLists, faults, setupFaults,
                   EncryptionKey, bots, currIdx, remote, lastId, deletes, ledger, now,
                   listing>>

\* a service that stores the plaintext length of an encrypted part
EncryptedSizeForgotten(n) == n

\* crypt.EncryptedSize: the plaintext length plus the cipher's fixed overhead
EncryptedSize(n) == n + 32

\* the outcomes of generateRandomSalt, crypt.NewCipher and cipher.EncryptData:
\* "" when all three succeed, else the call that returned an error
SetupOutcomes(q) ==
    IF q.Encrypted /\ setupFaults THEN {"", "salt", "cipher", "encrypt"} ELSE {""}

\* generateRandomSalt: the encoded hash of 32 random bytes, or "" with an error
generateRandomSalt(outcome) == IF outcome = "salt" THEN "" ELSE "salt"

\* the optional encryption set-up, whose errors are dropped, and u.Upload of
\* the part's bytes with the declared length fileSize
Upload(r) ==
    /\ st[r].pc = "upload"
    /\ Call(r, "Upload")
    /\ \E outcome \in SetupOutcomes(uploadQuery[r]) :
        LET q == uploadQuery[r]
            salt == IF q.Encrypted THEN generateRandomSalt(outcome) ELSE ""
            fileSize == IF q.Encrypted THEN EncryptedSize(q.ContentLength)
                        ELSE q.ContentLength
            locals == [st EXCEPT ![r].setup = outcome, ![r].salt = salt,
                                 ![r].fileSize = fileSize, ![r].declared = fileSize]
        IN \/ /\ faults
              /\ st' = [locals EXCEPT ![r].pc = "done", ![r].res = "error",
                                      ![r].err = "Upload"]
              /\ pool' = [pool EXCEPT ![r] = "closed"]
           \/ /\ st' = [locals EXCEPT ![r].pc = "send"]
              /\ pool' = pool
    /\ UNCHANGED <<authVars, files, stats, sent, uploadQuery, botLists, faults, setupFaults,
                   EncryptionKey, bots, currIdx, remote, lastId, deletes, ledger, now,
                   listing>>

\* the id the transport gives the next message of a channel
FreshId(c) == lastId[c] + 1

\* target.Media sends the document; the message id is read from the confirmation
Send(r) ==
    /\ st[r].pc = "send"
    /\ Call(r, "Media")
    /\ LET c == st[r].channelId IN
       \/ /\ faults
          /\ ReturnError(r, "Media", 0)
          /\ UNCHANGED <<remote, lastId, sent>>
       \/ /\ remote' = remote \cup {[channel |-> c, id |-> FreshId(c)]}
          /\ lastId' = [lastId EXCEPT ![c] = FreshId(c)]
          /\ sent' = Append(sent, [req |-> r, channel |-> c, id |-> FreshId(c)])
          /\ \/ \* an UpdateNewChannelMessage carrying the new message
                /\ st' = [st EXCEPT ![r].pc = "persist", ![r].confirm = "message",
                                    ![r].msgId = FreshId(c)]
                /\ pool' = pool
             \/ \* an UpdateNewChannelMessage whose message id is zero
                /\ faults
                /\ st' = [st EXCEPT ![r].pc = "done", ![r].confirm = "zeroId",
                                    ![r].res = "error", ![r].err = "upload failed"]
                /\ pool' = [pool EXCEPT ![r] = "closed"]
             \/ \* no UpdateNewChannelMessage: message stays nil, message.ID panics
                /\ faults
                /\ st' = [st EXCEPT ![r].pc = "done", ![r].confirm = "noUpdate",
                                    ![r].res = "panic"]
                /\ pool' = [pool EXCEPT ![r] = "closed"]
    /\ UNCHANGED <<authVars, files, stats, uploadQuery, botLists, faults, setupFaults,
                   EncryptionKey, bots, currIdx, deletes, ledger, now, listing>>

\* partUpload, the row UploadFile builds for the part it sent
PartUpload(r) ==
    [UploadId |-> uploadQuery[r].id, PartNo |-> uploadQuery[r].PartNo,
     PartId |-> st[r].msgId, ChannelID |-> st[r].channelId, Size |-> st[r].fileSize,
     Encrypted |-> uploadQuery[r].Encrypted, Salt |-> st[r].salt, CreatedAt |-> 0, req |-> r]

\* us.db.Create(partUpload)
Persist(r) ==
    /\ st[r].pc = "persist"
    /\ Call(r, "Create")
    /\ \/ \* the store fails, or refuses the key
          /\ faults \/ KeyTaken(PartUpload(r))
          /\ st' = [st EXCEPT ![r].pc = "compensate",
                              ![r].err = IF KeyTaken(PartUpload(r)) THEN "duplicate key"
                                         ELSE "Create"]
          /\ ledger' = ledger
       \/ /\ ~KeyTaken(PartUpload(r))
          /\ DbCreate(PartUpload(r))
          /\ Goto(r, "verify")
    /\ UNCHANGED <<authVars, files, stats, sent, uploadQuery, botLists, faults, setupFaults,
                   EncryptionKey, pool, bots, currIdx, remote, lastId, deletes, now,
                   listing>>

\* a compensating delete that names the wrong message
CompensateIdWrong(r) == st[r].msgId + 1

\* a compensating delete that names the message the channel will get next
CompensateIdUnsent(r) == FreshId(st[r].channelId)

\* the message id handed to ChannelsDeleteMessages
CompensateId(r) == st[r].msgId

\* the compensating ChannelsDeleteMessages after a failed Create, then return err
Compensate(r) ==
    /\ st[r].pc = "compensate"
    /\ IF st[r].msgId # 0
       THEN /\ Call(r, "ChannelsDeleteMessages")
            /\ \E ok \in {TRUE, ~faults} :   \* the delete's own error is dropped
                LET m == [channel |-> st[r].channelId, id |-> CompensateId(r)] IN
                /\ deletes' = Append(deletes, [req |-> r, channel |-> m.channel,
                                               id |-> m.id, ok |-> ok])
                /\ remote' = IF ok THEN remote \ {m} ELSE remote
       ELSE UNCHANGED <<calls, deletes, remote>>
    /\ ReturnError(r, st[r].err, 0)
    /\ UNCHANGED <<authVars, files, stats, sent, uploadQuery, botLists, faults, setupFaults,
                   EncryptionKey, bots, currIdx, lastId, ledger, now, listing>>

\* ChannelsGetMessages for the message just sent; its error is dropped
Verify(r) ==
    /\ st[r].pc = "verify"
    /\ Call(r, "ChannelsGetMessages")
    /\ \/ \* the call fails: msgs is nil and the check is skipped
          /\ faults
          /\ ReturnOut(r, "error")
       \/ \* an empty message list
          /\ faults
          /\ st' = [st EXCEPT ![r].pc = "done", ![r].verify = "empty",
                              ![r].res = "error", ![r].err = "upload failed"]
          /\ pool' = [pool EXCEPT ![r] = "closed"]
       \/ \* the message is there
          /\ [channel |-> st[r].channelId, id |-> st[r].msgId] \in remote
          /\ ReturnOut(r, "found")
    /\ UNCHANGED <<authVars, files, stats, sent, uploadQuery, botLists, faults, setupFaults,
                   EncryptionKey, bots, currIdx, remote, lastId, deletes, ledger, now,
                   listing>>

\* one step of UploadFile by request r
UploadFile(r) ==
    \/ Begin(r) \/ ResolveChannel(r) \/ GetTokens(r) \/ AuthUser(r)
    \/ UploadSet(r) \/ UploadNext(r) \/ BotClient(r)
    \/ RunWithAuth(r) \/ GetChannel(r) \/ Upload(r) \/ Send(r)
    \/ Persist(r) \/ Compensate(r) \/ Verify(r)

(* -------------------------- ledger queries ---------------------------- *)

\* Where("created_at < ?", time.Now().UTC().Add(us.cnf.Uploads.Retention))
RetentionFilter(row, t) == row.CreatedAt < t + Retention

\* the rows of upload id that pass the filter, with part_no from n upwards, by part_no
\* a query without Order("part_no"): the rows come back in insertion order
PartsUnordered(id, t, n) ==
    SelectSeq(ledger, LAMBDA row : row.UploadId = id /\ RetentionFilter(row, t))

RECURSIVE PartsFrom(_, _, _)
PartsFrom(id, t, n) ==
    IF n > MaxPartNo THEN <<>>
    ELSE SelectSeq(ledger, LAMBDA row : /\ row.UploadId = id
                                        /\ row.PartNo = n
                                        /\ RetentionFilter(row, t))
         \o PartsFrom(id, t, n + 1)

\* GetUploadFileById: the parts of an upload, Order("part_no")
GetUploadFileById(id) ==
    /\ listing' = [id |-> id, at |-> now, parts |-> PartsFrom(id, now, 1)]
    /\ UNCHANGED <<authVars, files, stats, sent, uploadQuery, botLists, faults, setupFaults,
                   EncryptionKey, st, calls, pool, bots, currIdx, remote, lastId,
                   deletes, ledger, now>>

\* a delete without its Where clause
RowsAfterDeleteAll(id) == <<>>

\* the uploads table after Where("upload_id = ?", uploadId).Delete(&models.Upload{})
RowsAfterDelete(id) == SelectSeq(ledger, LAMBDA row : row.UploadId # id)

\* DeleteUploadFile: the rows of the upload leave the table; nothing else is
\* called (a database error changes nothing and is answered as an AppError)
DeleteUploadFile(id) ==
    /\ ledger' = RowsAfterDelete(id)
    /\ UNCHANGED <<authVars, files, stats, sent, uploadQuery, botLists, faults, setupFaults,
                   EncryptionKey, st, calls, pool, bots, currIdx, remote, lastId,
                   deletes, now, listing>>

\* a second passes
Tick ==
    /\ now < MaxTime
    /\ now' = now + 1
    /\ UNCHANGED <<authVars, files, stats, sent, uploadQuery, botLists, faults, setupFaults,
                   EncryptionKey, st, calls, pool, bots, currIdx, remote, lastId,
                   deletes, ledger, listing>>

(* -------------------------- GetUploadStats ---------------------------- *)

\* CURRENT_DATE
Today == NumDays

Users == {1, 2}

\* the rows the files table can hold: files and folders of the users
FileRows == [day : 1..NumDays, type : {"file", "folder"}, user : Users, size : {1, 2}]

\* the right side of a LEFT JOIN row of a date without a file: all columns NULL
NullFile == [day |-> 0, type |-> "NULL", user |-> 0, size |-> 0]

\* the files tables of at most MaxFiles rows (a slot is a row or is empty)
FileTables ==
    {{slot[i] : i \in 1..MaxFiles} \ {NullFile} :
        slot \in [1..MaxFiles -> FileRows \cup {NullFile}]}

\* generate_series(CURRENT_DATE - INTERVAL '1 day' * n, CURRENT_DATE, '1 day')
DateSeries(n) == (Today - n)..Today

\* dates LEFT JOIN files ON upload_date = DATE_TRUNC('day', created_at):
\* the rows joined to one date
Joined(d) ==
    LET match == {f \in files : f.day = d}
    IN IF match = {} THEN {NullFile} ELSE match

\* the WHERE clause on a joined row
Where(f, userId) ==
    /\ f.type = "file" \/ f.type = "NULL"
    /\ f.user = userId \/ f.user = 0

\* SUM(files.size) of a group; COALESCE(..., 0) makes the all-NULL group 0
RECURSIVE SumSize(_)
SumSize(group) ==
    IF group = {} THEN 0
    ELSE LET f == CHOOSE g \in group : TRUE
         IN f.size + SumSize(group \ {f})

\* GROUP BY upload_date ORDER BY upload_date over the dates d..last: one row
\* for each date that kept a joined row
RECURSIVE StatsRows(_, _, _)
StatsRows(d, last, userId) ==
    IF d > last THEN <<>>
    ELSE LET kept == {f \in Joined(d) : Where(f, userId)}
         IN (IF kept = {} THEN <<>>
             ELSE <<[upload_date |-> d, total_uploaded |-> SumSize(kept)]>>)
            \o StatsRows(d + 1, last, userId)

\* GetUploadStats(userId, days): the query runs with @days = days - 1
\* (a database error is answered as an AppError and changes nothing)
GetUploadStats(userId, days) ==
    /\ stats' = [userId |-> userId, days |-> days,
                 rows |-> StatsRows(Today - (days - 1), Today, userId)]
    /\ UNCHANGED <<authVars, files, sent, uploadQuery, botLists, faults, setupFaults,
                   EncryptionKey, st, calls, pool, bots, currIdx, remote, lastId,
                   deletes, ledger, now, listing>>

(* ------------------------------ LogIn --------------------------------- *)

Logins == 1..NumLogins

\* the accounts that can sign in: session.UserID and session.UserName
Accounts == {[UserID |-> 1, UserName |-> "alice"], [UserID |-> 2, UserName |-> "mallory"]}

\* the values of config.AllowedUsers: no allowlist, or one that names alice
AllowLists == {{}, {"alice"}}

\* the locals of LogIn before its first statement; session.Sesssion of request
\* l is the string "s<l>", written l
NewLogin(account, l) ==
    [session |-> [UserID |-> account.UserID, UserName |-> account.UserName, Sesssion |-> l],
     pc |-> "start", res |-> "", code |-> 0, cookie |-> 0, created |-> FALSE]

\* a check that lets everybody in
checkAllowsAll(userName) == TRUE

\* checkUserIsAllowed: with an empty allowlist everybody is allowed
checkUserIsAllowed(userName) ==
    IF AllowedUsers # {} THEN userName \in AllowedUsers ELSE TRUE

\* the rows of the users table with a user_id
UserRows(id) == {i \in DOMAIN users : users[i].UserId = id}

\* the root folders of a user
RootFolders(id) == {i \in DOMAIN folders : folders[i].UserID = id}

\* LogIn returns an AppError
LoginError(l, c) == login' = [login EXCEPT ![l].pc = "done", ![l].res = "error", ![l].code = c]

\* setCookie and return "login success"
LoginSuccess(l, didCreate) ==
    login' = [login EXCEPT ![l].pc = "done", ![l].res = "ok",
                           ![l].cookie = login[l].session.Sesssion,
                           ![l].created = didCreate]

\* checkUserIsAllowed and auth.Encode, for a payload that ShouldBindJSON
\* accepted (a payload it refuses is answered 400 and carries no user)
LoginBegin(l) ==
    /\ login[l].pc = "start"
    /\ \/ /\ ~checkUserIsAllowed(login[l].session.UserName)
          /\ LoginError(l, 401)
       \/ /\ checkUserIsAllowed(login[l].session.UserName)
          /\ \/ /\ faults
                /\ LoginError(l, 400)      \* auth.Encode failed
             \/ login' = [login EXCEPT ![l].pc = "find"]
    /\ UNCHANGED <<uploadVars, socketVars, AllowedUsers, usersKeyed, users, folders>>

\* Where("user_id = ?", session.UserID).Find(&result)
LoginFind(l) ==
    /\ login[l].pc = "find"
    /\ \/ /\ faults
          /\ LoginError(l, 500)
       \/ login' = [login EXCEPT ![l].pc = IF UserRows(login[l].session.UserID) = {}
                                          THEN "createUser" ELSE "update"]
    /\ UNCHANGED <<uploadVars, socketVars, AllowedUsers, usersKeyed, users, folders>>

\* the users table refuses the row: it has the key and a row of the user_id
UserKeyTaken(id) == usersKeyed /\ UserRows(id) # {}

\* as.Db.Create(&user)
LoginCreateUser(l) ==
    /\ login[l].pc = "createUser"
    /\ LET session == login[l].session IN
       \/ /\ faults \/ UserKeyTaken(session.UserID)
          /\ LoginError(l, 500)
          /\ users' = users
       \/ /\ ~UserKeyTaken(session.UserID)
          /\ users' = Append(users, [UserId |-> session.UserID,
                                     UserName |-> session.UserName,
                                     TgSession |-> session.Sesssion])
          /\ login' = [login EXCEPT ![l].pc = "createRoot"]
    /\ UNCHANGED <<uploadVars, socketVars, AllowedUsers, usersKeyed, folders>>

\* as.Db.Create(file): the root folder of the first login
LoginCreateRoot(l) ==
    /\ login[l].pc = "createRoot"
    /\ \/ /\ faults
          /\ LoginError(l, 500)
          /\ folders' = folders
       \/ /\ folders' = Append(folders, [Name |-> "root", Type |-> "folder",
                                         UserID |-> login[l].session.UserID])
          /\ LoginSuccess(l, TRUE)
    /\ UNCHANGED <<uploadVars, socketVars, AllowedUsers, usersKeyed, users>>

\* Where("user_id = ?", session.UserID).Update("tg_session", session.Sesssion)
LoginUpdate(l) ==
    /\ login[l].pc = "update"
    /\ \/ /\ faults
          /\ LoginError(l, 500)
          /\ users' = users
       \/ /\ users' = [i \in DOMAIN users |->
                         IF users[i].UserId = login[l].session.UserID
                         THEN [users[i] EXCEPT !.TgSession = login[l].session.Sesssion]
                         ELSE users[i]]
          /\ LoginSuccess(l, FALSE)
    /\ UNCHANGED <<uploadVars, socketVars, AllowedUsers, usersKeyed, folders>>

LogIn(l) ==
    \/ LoginBegin(l) \/ LoginFind(l) \/ LoginCreateUser(l)
    \/ LoginCreateRoot(l) \/ LoginUpdate(l)

(* ------------------------ HandleMultipleLogin ------------------------- *)

Routines == 1..NumRoutines

\* the client messages that start a goroutine: authType "qr", "phone" with
\* message "sendcode" or "signin", and "2fa" with a password
AuthTypes == {"qr", "sendcode", "signin", "2fa"}

\* a goroutine that has not been started
FreeRoutine == [kind |-> "", pc |-> "free", msg |-> "", user |-> "", next |-> "",
                shown |-> FALSE]

\* no connection has been upgraded
NoSocket ==
    /\ conn = "none"
    /\ handler = "none"
    /\ routines = [g \in Routines |-> FreeRoutine]
    /\ writing = {}
    /\ wsOut = {}
    /\ logouts = {}

\* upgrader.Upgrade succeeded and tgClient.Run entered the read loop
OpenSocket ==
    /\ conn = "open"
    /\ handler = "reading"
    /\ routines = [g \in Routines |-> FreeRoutine]
    /\ writing = {}
    /\ wsOut = {}
    /\ logouts = {}

\* conn.ReadJSON returned a message of a known type: go func() { ... }()
Receive(kind) ==
    /\ handler = "reading"
    /\ conn = "open"
    /\ \E g \in Routines :
          /\ routines[g].pc = "free"
          /\ \A h \in 1..(g - 1) : routines[h].pc # "free"
          /\ routines' = [routines EXCEPT ![g] = [FreeRoutine EXCEPT !.kind = kind,
                                                                    !.pc = "auth"]]
    /\ UNCHANGED <<uploadVars, loginVars, conn, handler, writing, wsOut, logouts>>

\* conn.ReadJSON returned an error: the callback and Run return, and the
\* deferred conn.Close() runs
ReadError ==
    /\ handler = "reading"
    /\ conn = "open"
    /\ handler' = "returned"
    /\ conn' = "closed"
    /\ UNCHANGED <<uploadVars, loginVars, routines, writing, wsOut, logouts>>

\* the goroutine is about to call conn.WriteJSON(msg) and go on at `next`
ToWrite(g, msg, user, next) ==
    routines' = [routines EXCEPT ![g].pc = "write", ![g].msg = msg, ![g].user = user,
                                 ![g].next = next]

\* tgClient.QR().Auth hands a login token to its callback, which writes it
ShowToken(g) ==
    /\ conn # "panic"
    /\ handler = "reading"
    /\ routines[g].kind = "qr"
    /\ routines[g].pc = "auth"
    /\ ~routines[g].shown
    /\ routines' = [routines EXCEPT ![g].pc = "write", ![g].msg = "token",
                                    ![g].next = "auth", ![g].shown = TRUE]
    /\ UNCHANGED <<uploadVars, loginVars, conn, handler, writing, wsOut, logouts>>

\* the answer to a signed-in user: an error and a logout when the user is not
\* allowed, else the success message with the session
Authorized(g, userName) ==
    IF ~checkUserIsAllowed(userName)
    THEN ToWrite(g, "user not allowed", userName, "logout")
    ELSE ToWrite(g, "success", userName, "done")

\* QR().Auth, Auth().SendCode, Auth().SignIn or Auth().Password returned; once
\* tgClient.Run has returned the client is stopped and the call can only fail
AuthReturns(g) ==
    /\ conn # "panic"
    /\ routines[g].pc = "auth"
    /\ LET kind == routines[g].kind IN
       \/ ToWrite(g, "error", "", "done")
       \/ /\ handler = "reading"
          /\ \/ /\ kind \in {"qr", "signin"}
                /\ ToWrite(g, "2FA required", "", "done")
             \/ /\ kind = "sendcode"
                /\ ToWrite(g, "phoneCodeHash", "", "done")
             \/ /\ kind # "sendcode"
                /\ ToWrite(g, "auth failed", "", "done")
             \/ /\ kind # "sendcode"
                /\ \E a \in Accounts : Authorized(g, a.UserName)
    /\ UNCHANGED <<uploadVars, loginVars, conn, handler, writing, wsOut, logouts>>

\* conn.WriteJSON starts to write
WriteBegin(g) ==
    /\ conn # "panic"
    /\ routines[g].pc = "write"
    /\ routines' = [routines EXCEPT ![g].pc = "writing"]
    /\ writing' = writing \cup {g}
    /\ UNCHANGED <<uploadVars, loginVars, conn, handler, wsOut, logouts>>

\* what the client receives of a write: nothing from a closed connection; the
\* message, or a garbled frame when another goroutine writes at the same time
Delivered(g) ==
    IF conn # "open" THEN {}
    ELSE IF writing # {g}
         THEN {[type |-> routines[g].msg, user |-> routines[g].user],
               [type |-> "garbled", user |-> ""]}
         ELSE {[type |-> routines[g].msg, user |-> routines[g].user]}

\* conn.WriteJSON returns and its error is dropped; a write that overlapped
\* another goroutine's write may instead panic ("concurrent write to websocket
\* connection") and end the process
WriteEnd(g) ==
    /\ routines[g].pc = "writing"
    /\ conn # "panic"
    /\ \/ /\ routines' = [routines EXCEPT ![g].pc = routines[g].next]
          /\ writing' = writing \ {g}
          /\ \/ /\ Delivered(g) = {}
                /\ wsOut' = wsOut
             \/ \E m \in Delivered(g) : wsOut' = wsOut \cup {m}
          /\ conn' = conn
       \/ /\ conn = "open"
          /\ writing # {g}
          /\ conn' = "panic"
          /\ UNCHANGED <<routines, writing, wsOut>>
    /\ UNCHANGED <<uploadVars, loginVars, handler, logouts>>

\* tgClient.API().AuthLogOut(c); its result is dropped
AuthLogOut(g) ==
    /\ conn # "panic"
    /\ routines[g].pc = "logout"
    /\ logouts' = logouts \cup {g}
    /\ routines' = [routines EXCEPT ![g].pc = "done"]
    /\ UNCHANGED <<uploadVars, loginVars, conn, handler, writing, wsOut>>

HandleMultipleLogin ==
    \/ \E kind \in AuthTypes : Receive(kind)
    \/ ReadError
    \/ \E g \in Routines :
          \/ ShowToken(g) \/ AuthReturns(g) \/ WriteBegin(g) \/ WriteEnd(g)
          \/ AuthLogOut(g)

(* --------------------------- specifications --------------------------- *)

\* nobody signs in
NoAuth ==
    /\ AllowedUsers = {}
    /\ usersKeyed = TRUE
    /\ users = <<>>
    /\ folders = <<>>
    /\ login = [l \in Logins |-> NewLogin([UserID |-> 1, UserName |-> "alice"], l)]
    /\ NoSocket

\* requests `active` are about to call UploadFile with queries from qs
InitWith(active, qs, keys, lists, faulty, setupFaulty) ==
    /\ uploadQuery \in {[r \in AllReqs |-> IF r \in active THEN f[r]
                                          ELSE [id |-> "a", PartNo |-> 1,
                                                Encrypted |-> FALSE, ChannelID |-> 100,
                                                ContentLength |-> 0]] :
                        f \in [active -> qs]}
    /\ EncryptionKey \in keys
    /\ botLists = lists
    /\ faults = faulty
    /\ setupFaults = setupFaulty
    /\ st = [r \in AllReqs |-> InitLocals]
    /\ calls = [r \in AllReqs |-> <<>>]
    /\ pool = [r \in AllReqs |-> "none"]
    /\ bots = [c \in Channels |-> <<>>]
    /\ currIdx = [c \in Channels |-> 0]
    /\ remote = {}
    /\ lastId = [c \in Channels |-> 0]
    /\ deletes = <<>>
    /\ ledger = <<>>
    /\ now = 0
    /\ listing = [id |-> "", at |-> 0, parts |-> <<>>]
    /\ sent = <<>>
    /\ stats = [userId |-> 0, days |-> 0, rows |-> <<>>]

\* the requests of the upload specification upload parts of one upload
UploadQueries == {q \in Queries : q.id = "a" /\ q.ContentLength = 10}

Init ==
    /\ InitWith(Reqs, UploadQueries, EncryptionKeys, BotLists, TRUE, FALSE)
    /\ files = {}
    /\ NoAuth

Next == \E r \in Reqs : UploadFile(r)

Spec == Init /\ [][Next]_vars

\* the requests of the identity-rotation specification all upload to channel 100
WorkerQueries ==
    {q \in Queries : /\ q.id = "a" /\ q.PartNo = 1 /\ ~q.Encrypted
                     /\ q.ChannelID = 100 /\ q.ContentLength = 10}

InitWorker ==
    /\ InitWith(WorkerReqs, WorkerQueries, {"key"}, ChangingBotLists, TRUE, FALSE)
    /\ files = {}
    /\ NoAuth

\* the requests run UploadFile up to the selection of their identity
NextWorker ==
    \E r \in WorkerReqs :
        \/ Begin(r) \/ ResolveChannel(r) \/ GetTokens(r) \/ UploadSet(r) \/ UploadNext(r)

SpecWorker == InitWorker /\ [][NextWorker]_vars

\* the requests of the ledger specification upload unencrypted parts to channel 100
LedgerQueries == {q \in Queries : ~q.Encrypted /\ q.ChannelID = 100 /\ q.ContentLength = 10}

InitLedger ==
    /\ InitWith(Reqs, LedgerQueries, {"key"}, {<<>>}, FALSE, FALSE)
    /\ files = {}
    /\ NoAuth

\* uploads, the ledger queries and the clock
NextLedger ==
    \/ \E r \in Reqs :
        \/ Begin(r) \/ ResolveChannel(r) \/ GetTokens(r) \/ AuthUser(r)
        \/ RunWithAuth(r) \/ GetChannel(r) \/ Upload(r) \/ Send(r)
        \/ Persist(r) \/ Compensate(r) \/ Verify(r)
    \/ \E id \in UploadIds : GetUploadFileById(id)
    \/ \E id \in UploadIds : DeleteUploadFile(id)
    \/ Tick

SpecLedger == InitLedger /\ [][NextLedger]_vars

\* the request of the single-upload specification
PartReqs == {1}

InitPart ==
    /\ InitWith(PartReqs, Queries, EncryptionKeys, BotLists, TRUE, TRUE)
    /\ files = {}
    /\ NoAuth

\* one upload of a part of any length, plain or encrypted
NextPart == \E r \in PartReqs : UploadFile(r)

SpecPart == InitPart /\ [][NextPart]_vars

\* no upload is under way; the files table holds any rows
InitStats ==
    /\ InitWith({}, Queries, {"key"}, {<<>>}, FALSE, FALSE)
    /\ files \in FileTables
    /\ NoAuth

\* statistics are asked for any user and any window
NextStats == \E userId \in Users, days \in 1..NumDays : GetUploadStats(userId, days)

SpecStats == InitStats /\ [][NextStats]_vars

\* no upload is under way; the LogIn requests are about to run
InitLogin ==
    /\ InitWith({}, Queries, {"key"}, {<<>>}, TRUE, FALSE)
    /\ files = {}
    /\ AllowedUsers \in AllowLists
    /\ usersKeyed \in BOOLEAN
    /\ users = <<>>
    /\ folders = <<>>
    /\ login \in {[l \in Logins |-> NewLogin(a[l], l)] : a \in [Logins -> Accounts]}
    /\ NoSocket

NextLogin == \E l \in Logins : LogIn(l)

SpecLogin == InitLogin /\ [][NextLogin]_vars

\* a websocket connection has been upgraded; no LogIn request runs
InitSocket ==
    /\ InitWith({}, Queries, {"key"}, {<<>>}, TRUE, FALSE)
    /\ files = {}
    /\ AllowedUsers \in AllowLists
    /\ usersKeyed = TRUE
    /\ users = <<>>
    /\ folders = <<>>
    /\ login = [l \in Logins |-> NewLogin([UserID |-> 1, UserName |-> "alice"], l)]
    /\ OpenSocket

NextSocket == HandleMultipleLogin

SpecSocket == InitSocket /\ [][NextSocket]_vars

\* the LogIn request of the sign-in specification
AuthLogins == {1}

\* a websocket connection has been upgraded and a LogIn request is about to run
\* the account is new, or an earlier login (session 0) left its user row and
\* its root folder
InitAuth ==
    /\ InitWith({}, Queries, {"key"}, {<<>>}, TRUE, FALSE)
    /\ files = {}
    /\ AllowedUsers \in AllowLists
    /\ usersKeyed = TRUE
    /\ \E a \in Accounts :
          /\ login = [l \in Logins |-> NewLogin(a, l)]
          /\ \/ users = <<>> /\ folders = <<>>
             \/ /\ users = <<[UserId |-> a.UserID, UserName |-> a.UserName,
                               TgSession |-> 0]>>
                /\ folders = <<[Name |-> "root", Type |-> "folder",
                                 UserID |-> a.UserID]>>
    /\ OpenSocket

\* a sign-in over the websocket and a LogIn, in any interleaving
NextAuth ==
    \/ \E l \in AuthLogins : LogIn(l)
    \/ HandleMultipleLogin

SpecAuth == InitAuth /\ [][NextAuth]_vars

(* ------------------------------ claims -------------------------------- *)

\* rows of the uploads table that record message id of channel c
RowsForMessage(c, id) ==
    {i \in DOMAIN ledger : ledger[i].ChannelID = c /\ ledger[i].PartId = id}

\* the elements of a sequence
Range(seq) == {seq[i] : i \in DOMAIN seq}

\* the ChannelsDeleteMessages calls a request issued
DeletesOf(r) == {i \in DOMAIN deletes : deletes[i].req = r}

\* the errors of us.db.Create
PersistErrors == {"Create", "duplicate key"}

\* C1: when the send was confirmed with a non-zero message id and the existence
\* check answers an empty list, UploadFile returns the error "upload failed" and
\* the ledger holds no Part Record for that message.
C1_VerificationGate ==
    \A r \in Reqs :
        (st[r].pc = "done" /\ st[r].msgId # 0 /\ st[r].verify = "empty")
        => /\ st[r].res = "error"
           /\ st[r].err = "upload failed"
           /\ RowsForMessage(st[r].channelId, st[r].msgId) = {}

\* C2: a call of UploadFile that returned an error has left no Part Record of
\* its own in the ledger.
C2_FailureMeansNoRecord ==
    \A r \in Reqs : st[r].res = "error" => RowsOf(r) = {}

\* C3: a call of UploadFile that returned success has a Part Record in the ledger
\* and its existence check found the message.
C3_SuccessMeansVerified ==
    \A r \in Reqs :
        st[r].res = "ok" => (RowsOf(r) # {} /\ st[r].verify = "found")

\* C4: when us.db.Create fails after a confirmed send, UploadFile has issued,
\* by the time it returns, exactly one ChannelsDeleteMessages, on the destination
\* channel and for the id of the message it sent, and it returns the persistence
\* error whether the delete succeeded or not; no other path issues a delete.
C4_CompensatingDelete ==
    \A r \in Reqs :
        IF st[r].pc = "done" /\ st[r].err \in PersistErrors
        THEN /\ Cardinality(DeletesOf(r)) = 1
             /\ \A i \in DeletesOf(r) :
                    /\ deletes[i].channel = st[r].channelId
                    /\ deletes[i].id = st[r].msgId
                    /\ [channel |-> deletes[i].channel, id |-> deletes[i].id] \in remote
                           <=> ~deletes[i].ok
             /\ st[r].confirm = "message"
             /\ st[r].res = "error"
        ELSE DeletesOf(r) = {}

\* C4 witness: a persistence failure whose compensating delete failed too, and
\* UploadFile returned the persistence error
C4_Witness ==
    \E r \in Reqs :
        /\ st[r].pc = "done" /\ st[r].err \in PersistErrors /\ st[r].res = "error"
        /\ \E i \in DeletesOf(r) : ~deletes[i].ok

C6_RetentionWindow ==
    [][listing' # listing =>
        \A i \in DOMAIN ledger :
            ledger[i].UploadId = listing'.id =>
                /\ ledger[i].CreatedAt >= now - (Retention - 1)
                      => ledger[i] \in Range(listing'.parts)
                /\ ledger[i].CreatedAt <= now - (Retention + 1)
                      => ledger[i] \notin Range(listing'.parts)]_vars

\* every request of the rotation specification has been given its identity
AllSelected == \A r \in WorkerReqs : st[r].pc = "botClient"

\* C7: when N identities are registered for the channel and N*k requests have
\* each called Set with that list and then Next, every identity was returned
\* exactly k times.
C7_EvenRotation ==
    \A L \in botLists :
        (AllSelected /\ (\A r \in WorkerReqs : st[r].tokens = L)
                     /\ NumWorkerReqs % Len(L) = 0)
        => \A i \in DOMAIN L :
              Cardinality({r \in WorkerReqs : st[r].token = L[i]})
                  = NumWorkerReqs \div Len(L)

\* C7 witness: all requests registered the same two identities and were served
C7_Witness ==
    /\ AllSelected
    /\ \A r \in WorkerReqs : st[r].tokens = <<"b1", "b2">>
    /\ Cardinality({r \in WorkerReqs : st[r].token = "b2"}) * 2 = NumWorkerReqs

\* C8: every Next answers with an index inside the channel's current identity
\* list and with the token at that index, whatever Set calls ran in between.
C8_NextInRange ==
    [][\A r \in WorkerReqs :
          (st[r].pc = "workerNext" /\ st'[r].pc = "botClient")
          => LET L == bots[st[r].channelId] IN
             /\ st'[r].index \in 0..(Len(L) - 1)
             /\ st'[r].token = L[st'[r].index + 1]]_vars

\* C8 witness: a request was served from a list another request had installed
\* after its own Set
C8_Witness ==
    \E r \in WorkerReqs :
        /\ st[r].pc = "botClient"
        /\ st[r].token \notin Range(st[r].tokens)
        /\ st[r].token \in Range(bots[st[r].channelId])

\* C9: a request with the encryption flag, served while the encryption key is
\* empty, ends with a 400 error and has made no lookup, no authentication, no
\* transport call and no ledger write, and has no pool.
C9_KeyCheckFirst ==
    \A r \in Reqs :
        (uploadQuery[r].Encrypted /\ EncryptionKey = "" /\ st[r].pc # "start")
        => /\ st[r].pc = "done"
           /\ st[r].res = "error"
           /\ st[r].code = 400
           /\ calls[r] = <<>>
           /\ pool[r] = "none"
           /\ st[r].msgId = 0
           /\ RowsOf(r) = {}
           /\ DeletesOf(r) = {}

\* C9 witness: an encrypted upload was refused for the missing key
C9_Witness ==
    \E r \in Reqs :
        /\ uploadQuery[r].Encrypted /\ EncryptionKey = ""
        /\ st[r].pc = "done" /\ st[r].err = "encryption key not found"

\* C10: when the send confirmation carries no usable message id (a zero id, or
\* no new-channel-message update), UploadFile returns the error "upload failed"
\* and persists no Part Record.
C10_NoUsableIdFails ==
    \A r \in Reqs :
        st[r].confirm \in {"zeroId", "noUpdate"}
        => /\ st[r].res = "error"
           /\ st[r].err = "upload failed"
           /\ RowsOf(r) = {}

\* C11: every Part Record has a salt iff it is encrypted; an encrypted record's
\* size is EncryptedSize of the request's content length, the length that was
\* declared to the transport; a plain record's size is the content length and
\* its salt is empty.
C11_PartRecordShape ==
    \A i \in DOMAIN ledger :
        LET row == ledger[i]
            q == uploadQuery[row.req]
        IN /\ row.Salt # "" <=> row.Encrypted
           /\ row.Encrypted => /\ row.Size = EncryptedSize(q.ContentLength)
                               /\ st[row.req].declared = row.Size
           /\ ~row.Encrypted => /\ row.Size = q.ContentLength
                                /\ row.Salt = ""

\* the positions of UploadFile between pool.NewPool and its return
PoolPositions == {"run", "getChannel", "upload", "send", "persist", "compensate", "verify"}

\* the calls UploadFile makes with the client of its pool
PoolCalls == {"RunWithAuth", "GetChannelById", "Upload", "Media", "Create",
              "ChannelsDeleteMessages", "ChannelsGetMessages"}

\* C12: a request holds an open pool exactly between the creation of its pool
\* and its return: whichever way UploadFile ended (success, transport error,
\* zero id, persistence error, failed verification, panic) a pool it created is
\* closed, and the calls of the transfer are made by the request that owns the
\* open pool.
C12_PoolClosed ==
    \A r \in Reqs :
        /\ pool[r] = "open" <=> st[r].pc \in PoolPositions
        /\ st[r].pc = "done" => pool[r] \in {"none", "closed"}
        /\ pool[r] = "closed" => st[r].pc = "done"
        /\ Range(calls[r]) \cap PoolCalls # {} => pool[r] # "none"

\* C12 witness: one upload ended by the panic and one by a persistence error,
\* both after their pools were created, and both pools are closed
C12_Witness ==
    \E r, q \in Reqs :
        /\ st[r].pc = "done" /\ st[r].res = "panic" /\ pool[r] = "closed"
        /\ st[q].pc = "done" /\ st[q].err \in PersistErrors /\ pool[q] = "closed"

RowsNotOf(rows, id) == SelectSeq(rows, LAMBDA row : row.UploadId # id)

\* C14: a step that removes rows from the ledger removes all rows of one
\* upload and no row of any other upload, and makes no transport call: the
\* messages in the channels, the sends and the deletes are as before.
C14_DeleteFrame ==
    [][(ledger' # ledger /\ Len(ledger') <= Len(ledger)) =>
          /\ \E id \in UploadIds :
                /\ \A i \in DOMAIN ledger' : ledger'[i].UploadId # id
                /\ RowsNotOf(ledger', id) = RowsNotOf(ledger, id)
          /\ remote' = remote
          /\ sent' = sent
          /\ deletes' = deletes
          /\ calls' = calls]_vars

\* C14 witness: the rows of upload a were deleted after a successful upload of
\* one of its parts: its message is still in the channel and the row of upload
\* b is still in the ledger
C14_Witness ==
    /\ ledger # <<>>
    /\ \A i \in DOMAIN ledger : ledger[i].UploadId = "b"
    /\ \E r \in Reqs :
          /\ uploadQuery[r].id = "a"
          /\ st[r].res = "ok"
          /\ RowsOf(r) = {}
          /\ [channel |-> st[r].channelId, id |-> st[r].msgId] \in remote

\* the files (not folders) a user created on a day
UserFiles(userId, d) == {f \in files : f.user = userId /\ f.type = "file" /\ f.day = d}

\* C15: GetUploadStats(userId, days) answers with exactly one row for each of
\* the last `days` days, in order, whatever the files table holds, and the
\* total of a day is the sum of the sizes of the user's files created that day
\* (0 when there is none).
C15_OneRowPerDay ==
    stats.days > 0 =>
        /\ Len(stats.rows) = stats.days
        /\ \A k \in 1..stats.days :
              k \in DOMAIN stats.rows =>
                 LET d == Today - stats.days + k IN
                 /\ stats.rows[k].upload_date = d
                 /\ stats.rows[k].total_uploaded = SumSize(UserFiles(stats.userId, d))

\* C16: when the salt generator, the cipher set-up, the encryption of the
\* stream or the re-fetch of the sent message returned an error, the call of
\* UploadFile, once it returns, returns an error (as it does for the errors of
\* the channel lookup, the upload, the send and the ledger write).
C16_ErrorsSurface ==
    \A r \in PartReqs :
        (st[r].pc = "done" /\ st[r].res # "panic"
            /\ (st[r].setup # "" \/ st[r].verify = "error" \/ st[r].err # ""))
        => st[r].res = "error"

\* the errors UploadFile returns before it creates its pool
EarlyErrors == {"bind", "encryption key not found", "getDefaultChannel", "getBotsToken",
                "AuthClient", "BotClient"}

\* the messages a request sent
SentBy(r) == {i \in DOMAIN sent : sent[i].req = r}

\* C17: a call of UploadFile that failed while it resolved the channel or the
\* identity, or otherwise before its pool was created, has returned that error
\* having sent no message, deleted no message, written no Part Record and made
\* no call of the transfer.
C17_EarlyFailureNoEffect ==
    \A r \in Reqs :
        st[r].err \in EarlyErrors
        => /\ st[r].pc = "done"
           /\ st[r].res = "error"
           /\ pool[r] = "none"
           /\ st[r].msgId = 0
           /\ SentBy(r) = {}
           /\ DeletesOf(r) = {}
           /\ RowsOf(r) = {}
           /\ Range(calls[r]) \cap PoolCalls = {}

\* C17 witness: the bot authentication of one upload failed after the rotation
\* had selected its token, while another upload went through
C17_Witness ==
    \E r, q \in Reqs :
        /\ st[r].err = "BotClient" /\ st[r].token # ""
        /\ st[q].res = "ok" /\ SentBy(q) # {} /\ RowsOf(q) # {}

\* the position of the first call `name` in a request's call log (0: none)
FirstCall(r, name) ==
    IF name \in Range(calls[r])
    THEN CHOOSE i \in DOMAIN calls[r] :
            /\ calls[r][i] = name
            /\ \A j \in 1..(i - 1) : calls[r][j] # name
    ELSE 0

\* C18: every ChannelsDeleteMessages names a non-zero message id that the same
\* call of UploadFile was given by a completed send on that channel, and the
\* send comes first in the call's log; a call whose send failed or was never
\* made issues no delete.
C18_DeleteAfterSend ==
    /\ \A i \in DOMAIN deletes :
          LET d == deletes[i] IN
          /\ d.id # 0
          /\ [req |-> d.req, channel |-> d.channel, id |-> d.id] \in Range(sent)
          /\ st[d.req].confirm = "message"
          /\ 0 < FirstCall(d.req, "Media")
          /\ FirstCall(d.req, "Media") < FirstCall(d.req, "ChannelsDeleteMessages")
    /\ \A r \in Reqs : SentBy(r) = {} => DeletesOf(r) = {}

\* C18 witness: one upload deleted the message it had sent, while the send of
\* the other failed and no delete was issued for it
C18_Witness ==
    \E r, q \in Reqs :
        /\ DeletesOf(r) # {} /\ SentBy(r) # {}
        /\ st[q].err = "Media" /\ SentBy(q) = {} /\ DeletesOf(q) = {}

\* the LogIn requests of a user
LoginsOf(id) == {l \in Logins : login[l].session.UserID = id}

\* C21: when the LogIn calls of a user have all returned, however they
\* interleaved, and one of them returned success, the users table holds exactly
\* one row of that user and the files table exactly one root folder of that
\* user.
C21_OneUserOneRoot ==
    \A a \in Accounts :
        (/\ \A l \in LoginsOf(a.UserID) : login[l].pc = "done"
         /\ \E l \in LoginsOf(a.UserID) : login[l].res = "ok")
        => /\ Cardinality(UserRows(a.UserID)) = 1
           /\ Cardinality(RootFolders(a.UserID)) = 1

\* C23: at most one goroutine is inside conn.WriteJSON at any time, and none
\* is once the handler has returned and closed the connection.
C23_OneWriter ==
    /\ Cardinality(writing) <= 1
    /\ conn = "closed" => writing = {}

\* the user name is kept out by a non-empty allowlist
KeptOut(userName) == AllowedUsers # {} /\ userName \notin AllowedUsers

\* C22: with a non-empty allowlist, a LogIn for a user name that is not in it
\* returns 401 with no cookie set and no user row or root folder written (no
\* row carries the request's session, and there is still one root folder per
\* user row); and
\* on the websocket no success message carries a user that is not in the list:
\* a goroutine whose sign-in (QR, phone, 2FA) produced such a user answers
\* "user not allowed" and calls AuthLogOut before it ends.
C22_AllowlistEnforced ==
    /\ \A l \in AuthLogins :
          (KeptOut(login[l].session.UserName) /\ login[l].pc # "start")
          => /\ login[l].pc = "done"
             /\ login[l].res = "error"
             /\ login[l].code = 401
             /\ login[l].cookie = 0
             /\ \A i \in DOMAIN users :
                   users[i].TgSession # login[l].session.Sesssion
             /\ Len(users) = Len(folders)
    /\ \A m \in wsOut : m.type = "success" => ~KeptOut(m.user)
    /\ \A g \in Routines :
          (routines[g].user # "" /\ KeptOut(routines[g].user))
          => /\ routines[g].msg = "user not allowed"
             /\ routines[g].pc \in {"write", "writing", "logout", "done"}
             /\ routines[g].pc = "done" => g \in logouts
             /\ g \in logouts => routines[g].pc = "done"

\* C22 witness: mallory is not in the allowlist: her LogIn was refused, her
\* sign-in over the websocket was answered "user not allowed" and logged out,
\* and alice received her session
C22_Witness ==
    /\ AllowedUsers = {"alice"}
    /\ \E l \in AuthLogins :
          login[l].session.UserName = "mallory" /\ login[l].code = 401
    /\ \E g \in logouts :
          routines[g].user = "mallory" /\ routines[g].pc = "done"
    /\ [type |-> "user not allowed", user |-> "mallory"] \in wsOut
    /\ [type |-> "success", user |-> "alice"] \in wsOut

=============================================================================
